---- MODULE Spec2Model ----
(***************************************************************************)
(* Model of the calibration-dataset builder                                *)
(* src/data/DAv2s_CPU/02-make_calib_list.py.                                *)
(*                                                                         *)
(* File names and paths are sequences of one-character strings, so that    *)
(* glob matching, "%06d" formatting and sorting are computed on the        *)
(* characters, as the code computes them.                                  *)
(***************************************************************************)
EXTENDS Integers, Sequences, FiniteSets, TLC

VARIABLES
  tree,             \* the source path: [kind, files, bad]
  env,              \* fault conditions of the file system, see Envs
  out,              \* the output path: [kind, files]; files maps name -> content
  rng,              \* state of the global generator of module random
  args,             \* argparse.Namespace of the current run
  pc,               \* position of main()
  all_images,       \* main: all_images
  selected_images,  \* main: selected_images (result of sample_images)
  num_processed,    \* main: num_processed
  saved,            \* process_images: indices idx whose save_image returned True
  exit_code,        \* status handed to sys.exit
  traversed,        \* TRUE once this run has enumerated the source tree (rglob)
  out0,             \* the output path as it was when the current run started
  cleaned,          \* the output path right after the cleanup loop of this run
  idx,              \* process_images: the loop index
  rerun,            \* "first" | "same" | "diff": args compared with the previous run
  results           \* SpecSample: results of the successive calls of sample_images

vars == <<tree, env, out, rng, args, pc, all_images, selected_images,
          num_processed, saved, idx, exit_code, traversed, out0, cleaned, rerun,
          results>>

(***************************************************************************)
(* Bounds.                                                                 *)
(***************************************************************************)
\* number of candidate image files of the source tree
MaxFiles == 3
\* number of fault conditions present in the file system at once
MaxFaults == 1
\* number of successive calls of sample_images with the same arguments
MaxCalls == 2
\* number of files of the largest corpus handed to sample_images in SpecSample
MaxCorpus == 4
\* number of files of the largest source tree handed to collect_image_paths in
\* SpecCollect
MaxTreeFiles == 7
\* number of digits of the largest power of ten among the ordinals of
\* SpecManifest
MaxDigits == 7

(***************************************************************************)
(* Characters and strings.                                                 *)
(***************************************************************************)
\* code points of the characters that occur in the modelled names
Ascii ==
  ("." :> 46) @@ ("/" :> 47) @@
  ("0" :> 48) @@ ("1" :> 49) @@ ("2" :> 50) @@ ("3" :> 51) @@ ("4" :> 52) @@
  ("5" :> 53) @@ ("6" :> 54) @@ ("7" :> 55) @@ ("8" :> 56) @@ ("9" :> 57) @@
  ("G" :> 71) @@ ("J" :> 74) @@ ("N" :> 78) @@ ("P" :> 80) @@ ("E" :> 69) @@
  ("_" :> 95) @@
  ("a" :> 97) @@ ("b" :> 98) @@ ("c" :> 99) @@ ("d" :> 100) @@ ("e" :> 101) @@
  ("g" :> 103) @@ ("i" :> 105) @@ ("j" :> 106) @@ ("l" :> 108) @@
  ("n" :> 110) @@ ("o" :> 111) @@ ("p" :> 112) @@ ("r" :> 114) @@
  ("s" :> 115) @@ ("t" :> 116) @@ ("u" :> 117) @@ ("x" :> 120)

\* str.upper() on the characters of the configured extensions
UpperChar(c) ==
  CASE c = "j" -> "J" [] c = "p" -> "P" [] c = "g" -> "G"
    [] c = "e" -> "E" [] c = "n" -> "N" [] OTHER -> c

Upper(s) == [i \in 1..Len(s) |-> UpperChar(s[i])]

\* str.__lt__: comparison by code point, a proper prefix is smaller
RECURSIVE StrLess(_, _)
StrLess(s, t) ==
  IF t = <<>> THEN FALSE
  ELSE IF s = <<>> THEN TRUE
  ELSE IF Ascii[Head(s)] # Ascii[Head(t)] THEN Ascii[Head(s)] < Ascii[Head(t)]
  ELSE StrLess(Tail(s), Tail(t))

StartsWith(s, p) == Len(s) >= Len(p) /\ SubSeq(s, 1, Len(p)) = p
EndsWith(s, p) == Len(s) >= Len(p) /\ SubSeq(s, Len(s) - Len(p) + 1, Len(s)) = p

\* PurePath parts: the components of a path, split at "/"
RECURSIVE Parts(_)
Parts(p) ==
  IF \A i \in 1..Len(p) : p[i] # "/" THEN <<p>>
  ELSE LET k == CHOOSE i \in 1..Len(p) : p[i] = "/" /\ \A j \in 1..(i-1) : p[j] # "/"
       IN  <<SubSeq(p, 1, k - 1)>> \o Parts(SubSeq(p, k + 1, Len(p)))

\* list.__lt__ on lists of strings
RECURSIVE PartsLess(_, _)
PartsLess(a, b) ==
  IF b = <<>> THEN FALSE
  ELSE IF a = <<>> THEN TRUE
  ELSE IF Head(a) # Head(b) THEN StrLess(Head(a), Head(b))
  ELSE PartsLess(Tail(a), Tail(b))

\* PurePath.__lt__ compares the parts of the two paths
PathLess(p, q) == PartsLess(Parts(p), Parts(q))

\* sorted() of a set of paths
RECURSIVE SortedPaths(_)
SortedPaths(S) ==
  IF S = {} THEN <<>>
  ELSE LET m == CHOOSE x \in S : \A y \in S \ {x} : PathLess(x, y)
       IN  <<m>> \o SortedPaths(S \ {m})

Range(s) == {s[i] : i \in 1..Len(s)}

Min(a, b) == IF a <= b THEN a ELSE b

\* sorted() of a list of paths (insertion sort; equal elements are kept)
RECURSIVE InsertPath(_, _)
InsertPath(x, s) ==
  IF s = <<>> THEN <<x>>
  ELSE IF PathLess(x, Head(s)) THEN <<x>> \o s
  ELSE <<Head(s)>> \o InsertPath(x, Tail(s))

RECURSIVE Sorted(_)
Sorted(s) == IF s = <<>> THEN <<>> ELSE InsertPath(Head(s), Sorted(Tail(s)))

(***************************************************************************)
(* The source tree.                                                        *)
(***************************************************************************)
\* candidate files under --source-dir, as paths relative to it
SrcUniverse ==
  << <<"a", ".", "j", "p", "g">>,
     <<"a", "/", "b", ".", "j", "p", "g">>,
     <<"c", ".", "J", "P", "G">>,
     <<"d", ".", "p", "n", "g">>,
     <<"e", ".", "j", "p", "e", "g">> >>

\* a file of the tree that is no image
NotesTxt == <<"n", ".", "t", "x", "t">>

Candidates == {SrcUniverse[i] : i \in 1..MaxFiles}

\* trees: a missing path, a plain file, or a directory holding n.txt and some
\* candidates, of which those in bad are not decodable by cv2.imread
Trees ==
  {[kind |-> "missing", files |-> {}, bad |-> {}],
   [kind |-> "file", files |-> {}, bad |-> {}]}
  \cup {[kind |-> "dir", files |-> F \cup {NotesTxt}, bad |-> B] :
          <<F, B>> \in {fb \in (SUBSET Candidates) \X (SUBSET Candidates) :
                          fb[2] \subseteq fb[1]}}

(***************************************************************************)
(* collect_image_paths                                                     *)
(***************************************************************************)
\* the default value of parameter extensions
Extensions ==
  << <<".", "j", "p", "g">>, <<".", "j", "p", "e", "g">>, <<".", "p", "n", "g">> >>

\* source_dir.rglob("*" + ext): the files, at any depth, whose name ends with ext
Rglob(t, ext) == {f \in t.files : EndsWith(f, ext)}

\* collect_image_paths that returns what rglob finds, an empty list too
collect_image_paths_noraise(t) ==
  LET found == UNION {Rglob(t, Extensions[i]) \cup Rglob(t, Upper(Extensions[i])) :
                        i \in 1..Len(Extensions)}
  IN  [raised |-> FALSE, value |-> SortedPaths(found), walked |-> TRUE]

\* the result of a call: raised tells whether it raised ValueError
collect_image_paths(t) ==
  IF t.kind = "missing" THEN [raised |-> TRUE, value |-> <<>>, walked |-> FALSE]
  ELSE IF t.kind # "dir" THEN [raised |-> TRUE, value |-> <<>>, walked |-> FALSE]
  ELSE LET found == UNION {Rglob(t, Extensions[i]) \cup Rglob(t, Upper(Extensions[i])) :
                             i \in 1..Len(Extensions)}
           image_paths == SortedPaths(found)
       IN  IF image_paths = <<>>
           THEN [raised |-> TRUE, value |-> <<>>, walked |-> TRUE]
           ELSE [raised |-> FALSE, value |-> image_paths, walked |-> TRUE]

(***************************************************************************)
(* Module random: the generator is MT19937; its state after random.seed(a) *)
(* and pos drawn words is [seed |-> a, pos |-> pos].                       *)
(***************************************************************************)
\* the seeds of the runs (the default of --seed, and the seed of the
\* spec's stale-run scenario)
Seeds == {7, 42}

\* the top 8 bits of the first 64 32-bit words that CPython's generator
\* yields after random.seed(7) and random.seed(42)
MTWords ==
  (7 :> << 82, 242, 38, 101, 166, 12, 18, 210, 137, 24, 93, 149, 14, 232, 129, 54,
           9, 22, 111, 107, 17, 61, 23, 141, 108, 15, 211, 144, 31, 242, 57, 161,
           160, 149, 242, 15, 147, 149, 101, 12, 249, 56, 11, 142, 219, 34, 74, 107,
           36, 138, 30, 146, 78, 143, 208, 174, 46, 26, 148, 146, 163, 48, 95, 24 >>)
  @@
  (42 :> << 163, 28, 6, 189, 70, 62, 57, 35, 188, 26, 173, 189, 228, 139, 22, 151,
            108, 8, 7, 23, 55, 59, 129, 154, 6, 143, 50, 183, 166, 179, 139, 107,
            56, 114, 150, 71, 207, 222, 1, 194, 206, 40, 178, 108, 87, 71, 39, 55,
            245, 195, 86, 26, 23, 97, 24, 91, 216, 88, 154, 67, 206, 11, 186, 117 >>)

\* states the generator can be in when sample_images is called
RngStates == {[seed |-> s, pos |-> p] : s \in Seeds, p \in {0, 1, 5}}

\* random.seed(a)
random_seed(a) == [seed |-> a, pos |-> 0]

\* int.bit_length()
RECURSIVE BitLength(_)
BitLength(n) == IF n = 0 THEN 0 ELSE 1 + BitLength(n \div 2)

\* random.getrandbits(k), k <= 8: the top k bits of the next word
getrandbits(g, k) ==
  [r |-> MTWords[g.seed][g.pos + 1] \div (2 ^ (8 - k)), g |-> [g EXCEPT !.pos = @ + 1]]

\* Random._randbelow_with_getrandbits(n): draw until the value is below n
RECURSIVE randbelow(_, _)
randbelow(g, n) ==
  LET d == getrandbits(g, BitLength(n))
  IN  IF d.r < n THEN d ELSE randbelow(d.g, n)

\* a draw that does not take the drawn element out of the pool
RECURSIVE SampleLoopNoSwap(_, _, _, _)
SampleLoopNoSwap(pool, m, k, g) ==
  IF k = 0 THEN [value |-> <<>>, g |-> g]
  ELSE LET d == randbelow(g, m)
           rest == SampleLoopNoSwap(pool, m - 1, k - 1, d.g)
       IN  [value |-> <<pool[d.r + 1]>> \o rest.value, g |-> rest.g]

\* the pool loop of random.sample: k draws from the first m elements of pool;
\* the drawn element is overwritten by the last live one
RECURSIVE SampleLoop(_, _, _, _)
SampleLoop(pool, m, k, g) ==
  IF k = 0 THEN [value |-> <<>>, g |-> g]
  ELSE LET d == randbelow(g, m)
           rest == SampleLoop([pool EXCEPT ![d.r + 1] = pool[m]], m - 1, k - 1, d.g)
       IN  [value |-> <<pool[d.r + 1]>> \o rest.value, g |-> rest.g]

\* the branch of random.sample that keeps a set of the indices selected so
\* far: i results are still to draw from the n elements of population; an
\* index already selected is drawn again
RECURSIVE SampleSelected(_, _, _, _, _)
SampleSelected(population, n, i, selected, g) ==
  IF i = 0 THEN [value |-> <<>>, g |-> g]
  ELSE LET d == randbelow(g, n)
       IN  IF d.r \in selected
           THEN SampleSelected(population, n, i, selected, d.g)
           ELSE LET rest == SampleSelected(population, n, i - 1, selected \cup {d.r}, d.g)
                IN  [value |-> <<population[d.r + 1]>> \o rest.value, g |-> rest.g]

\* _ceil(_log(x, 4)) for an x that is not a power of 4 (x is 3 * k): the
\* least e with 4 ^ e >= x
RECURSIVE CeilLog4(_)
CeilLog4(x) == IF x <= 1 THEN 0 ELSE 1 + CeilLog4((x + 3) \div 4)

\* setsize of random.sample: the size of a small set, plus that of a set of
\* k elements when k > 5
SetSize(k) == IF k > 5 THEN 21 + 4 ^ CeilLog4(k * 3) ELSE 21

\* random.sample(population, k)
random_sample(population, k, g) ==
  LET n == Len(population)
  IN  IF ~(0 <= k /\ k <= n)
      THEN [raised |-> TRUE, value |-> <<>>, g |-> g]
      ELSE LET s == IF n <= SetSize(k)
                    THEN SampleLoop(population, n, k, g)
                    ELSE SampleSelected(population, n, k, {}, g)
           IN  [raised |-> FALSE, value |-> s.value, g |-> s.g]

(***************************************************************************)
(* sample_images                                                           *)
(***************************************************************************)
\* sample_images without the call of random.seed
sample_images_noseed(image_paths, num_samples, seed, g) ==
  IF Len(image_paths) <= num_samples
  THEN [raised |-> FALSE, value |-> image_paths, g |-> g]
  ELSE LET s == random_sample(image_paths, num_samples, g)
       IN  [raised |-> s.raised, value |-> Sorted(s.value), g |-> s.g]

\* sample_images without the "use all" branch
sample_images_noguard(image_paths, num_samples, seed, g) ==
  LET s == random_sample(image_paths, num_samples, random_seed(seed))
  IN  [raised |-> s.raised, value |-> Sorted(s.value), g |-> s.g]

\* sample_images that returns the sample in draw order
sample_images_unsorted(image_paths, num_samples, seed, g) ==
  LET g1 == random_seed(seed)
  IN  IF Len(image_paths) <= num_samples
      THEN [raised |-> FALSE, value |-> image_paths, g |-> g1]
      ELSE random_sample(image_paths, num_samples, g1)

\* the result of a call started with the generator in state g: raised tells
\* whether ValueError came out of random.sample, g is the generator afterwards
sample_images(image_paths, num_samples, seed, g) ==
  LET g1 == random_seed(seed)
  IN  IF Len(image_paths) <= num_samples
      THEN [raised |-> FALSE, value |-> image_paths, g |-> g1]
      ELSE LET s == random_sample(image_paths, num_samples, g1)
           IN  [raised |-> s.raised, value |-> Sorted(s.value), g |-> s.g]

(***************************************************************************)
(* The output directory.                                                   *)
(***************************************************************************)
CalibPrefix == <<"c", "a", "l", "i", "b", "_">>
DotJpg == <<".", "j", "p", "g">>
\* "calibration_list.txt"
ListName ==
  <<"c", "a", "l", "i", "b", "r", "a", "t", "i", "o", "n", "_", "l", "i", "s", "t",
    ".", "t", "x", "t">>
\* "calib_notes.jpg": a file of the user, not written by this program
NotesJpg == CalibPrefix \o <<"n", "o", "t", "e", "s">> \o DotJpg
\* "calib_000001.png"
StalePng == CalibPrefix \o <<"0", "0", "0", "0", "0", "1", ".", "p", "n", "g">>
\* str(output_dir.absolute()) + "/"
OutDirAbs == <<"/", "o", "u", "t", "/">>

DigitChar == <<"0", "1", "2", "3", "4", "5", "6", "7", "8", "9">>

\* str(n) for n >= 0
RECURSIVE Decimal(_)
Decimal(n) ==
  IF n < 10 THEN <<DigitChar[n + 1]>> ELSE Decimal(n \div 10) \o <<DigitChar[(n % 10) + 1]>>

\* padding to a width: "0" is prepended while the text is shorter
RECURSIVE ZeroPad(_, _)
ZeroPad(s, width) == IF Len(s) >= width THEN s ELSE ZeroPad(<<"0">> \o s, width)

\* f"{idx}": the ordinal without padding
Format06dNoPad(i) == Decimal(i)

\* f"{idx:06d}"
Format06d(i) == ZeroPad(Decimal(i), 6)

\* f"calib_{idx:06d}.jpg"
OutputName(i) == CalibPrefix \o Format06d(i) \o DotJpg

\* a name that only "calib_" + six digits + ".jpg" matches
SixDigitName(name) ==
  /\ Len(name) = Len(CalibPrefix) + 6 + Len(DotJpg)
  /\ StartsWith(name, CalibPrefix)
  /\ EndsWith(name, DotJpg)
  /\ \A k \in (Len(CalibPrefix) + 1)..(Len(CalibPrefix) + 6) : name[k] \in Range(DigitChar)

\* Path.glob("calib_*.jpg") on a name: "*" matches any run of characters
GlobCalib(name) ==
  /\ Len(name) >= Len(CalibPrefix) + Len(DotJpg)
  /\ StartsWith(name, CalibPrefix)
  /\ EndsWith(name, DotJpg)

\* the defaults of --width and --height
DefaultWidth == 644
DefaultHeight == 392

\* contents of files: an image of size <<width, height>> written from source
\* path src, or a list of lines
Image(src, size) == [src |-> src, lines |-> <<>>, size |-> size]
ListFile(lines) == [src |-> <<>>, lines |-> lines, size |-> <<>>]
\* an image that no run of this model wrote
Foreign == Image(<<"x">>, <<DefaultWidth, DefaultHeight>>)

EmptyDir == <<>>
NoOut == [kind |-> "none", files |-> EmptyDir]

\* the names of a directory, and the names the glob of the program yields
Names(o) == DOMAIN o.files
CalibFiles(o) == {n \in Names(o) : GlobCalib(n)}

\* removal of names from a directory
Without(files, gone) == [n \in (DOMAIN files) \ gone |-> files[n]]
\* creation or replacement of one file
WithFile(files, name, content) ==
  [n \in (DOMAIN files) \cup {name} |-> IF n = name THEN content ELSE files[n]]

(***************************************************************************)
(* Fault conditions of the file system and of OpenCV. They are part of the  *)
(* state of the machine: no step of the program changes them.              *)
(*   locked      names whose unlink() raises                               *)
(*   unwritable  names for which cv2.imwrite fails                         *)
(*   list_ok     whether open(list_file, 'w') succeeds                     *)
(*   mkdir_ok    whether a missing output directory can be created         *)
(*   resize_ok   whether cv2.resize can produce an image of a positive     *)
(*               target size (it raises cv2.error when it cannot allocate  *)
(*               the destination, or when the size is beyond what it takes) *)
(***************************************************************************)
FaultCount(e) ==
  Cardinality(e.locked) + Cardinality(e.unwritable)
    + (IF e.list_ok THEN 0 ELSE 1) + (IF e.mkdir_ok THEN 0 ELSE 1)
    + (IF e.resize_ok THEN 0 ELSE 1)

Envs ==
  {e \in [locked : SUBSET {OutputName(1), NotesJpg},
          unwritable : SUBSET {OutputName(0), OutputName(1)},
          list_ok : BOOLEAN, mkdir_ok : BOOLEAN, resize_ok : BOOLEAN] :
     FaultCount(e) <= MaxFaults}

\* what the output directory can hold before the first run
StaleFiles ==
  (OutputName(1) :> Foreign) @@ (NotesJpg :> Foreign) @@ (StalePng :> Foreign)
    @@ (ListName :> ListFile(<<OutDirAbs \o OutputName(1)>>))

InitialOuts ==
  {[kind |-> "absent", files |-> EmptyDir], [kind |-> "file", files |-> EmptyDir]}
  \cup {[kind |-> "dir", files |-> [n \in S |-> StaleFiles[n]]] : S \in SUBSET (DOMAIN StaleFiles)}

(***************************************************************************)
(* load_image, save_image, the steps of process_images, generate_image_list *)
(***************************************************************************)
\* load_image returns None for a file cv2.imread cannot decode
load_image(t, image_path) == image_path \notin t.bad

\* <<width, height>> of the image that cv2.imread decodes from a file: a.jpg
\* has the default target size, every other file is a 1280x720 frame
ImageSize(image_path) ==
  IF image_path = SrcUniverse[1] THEN <<DefaultWidth, DefaultHeight>> ELSE <<1280, 720>>

\* resize_if_needed on an image of the given size: the image itself when its
\* size is the target, else the result of cv2.resize, which raises cv2.error
\* for a target width or height that is not positive and for a positive
\* target it cannot produce
resize_if_needed(e, size, target_width, target_height) ==
  IF size = <<target_width, target_height>>
  THEN [raised |-> FALSE, size |-> size]
  ELSE IF target_width <= 0 \/ target_height <= 0 \/ ~e.resize_ok
  THEN [raised |-> TRUE, size |-> size]
  ELSE [raised |-> FALSE, size |-> <<target_width, target_height>>]

\* save_image returns the result of cv2.imwrite
save_image(e, name) == name \notin e.unwritable

\* output_dir.mkdir(parents=True, exist_ok=True): FALSE when it raises
MkdirOk(o, e) ==
  CASE o.kind = "dir" -> TRUE
    [] o.kind = "file" -> FALSE
    [] OTHER -> e.mkdir_ok

\* process_images without the cleanup loop
CleanupKeepAll(o, e) == o

\* a cleanup loop that removes only the six-digit names
CleanupSixDigit(o, e) ==
  [o EXCEPT !.files = Without(@, {n \in DOMAIN @ : SixDigitName(n) /\ n \notin e.locked})]

\* the cleanup loop: unlink every file of glob("calib_*.jpg"); a failed unlink
\* is logged and skipped
Cleanup(o, e) ==
  [o EXCEPT !.files = Without(@, {n \in DOMAIN @ : GlobCalib(n) /\ n \notin e.locked})]

\* the manifest lines: the absolute paths of sorted(glob("calib_*.jpg"))
ManifestLines(o) ==
  LET image_files == SortedPaths(CalibFiles(o))
  IN  [k \in 1..Len(image_files) |-> OutDirAbs \o image_files[k]]

(***************************************************************************)
(* main, one action per step. A run starts at pc = "start" and ends at     *)
(* pc = "done" with exit_code set.                                         *)
(***************************************************************************)
NoArgs == [num_images |-> 0, seed |-> 0, quality |-> -1, width |-> 0, height |-> 0]
NoExit == -1

\* values of --num-images given on the command line
NumImages == (-1)..(MaxFiles - 1)

\* command lines: the accepted ones with the default target size, those with
\* a --width that cv2.resize rejects (argparse takes any int), and one whose
\* --quality argparse rejects
CommandLines ==
  [num_images : NumImages, seed : Seeds, quality : {95}, width : {DefaultWidth},
   height : {DefaultHeight}]
    \cup {[num_images |-> MaxFiles - 1, seed |-> s, quality |-> 95, width |-> 0,
            height |-> DefaultHeight] : s \in Seeds}
    \cup {[num_images |-> 300, seed |-> 42, quality |-> 0, width |-> DefaultWidth,
           height |-> DefaultHeight]}

\* the generator of a new process is seeded from the system's entropy
FreshRng == {[seed |-> 7, pos |-> 5], [seed |-> 42, pos |-> 1]}

Locals == <<all_images, selected_images, num_processed, saved, idx>>

Init ==
  /\ tree \in Trees
  /\ env \in Envs
  /\ out \in InitialOuts
  /\ rng \in FreshRng
  /\ args = NoArgs
  /\ pc = "start"
  /\ all_images = <<>>
  /\ selected_images = <<>>
  /\ num_processed = 0
  /\ saved = {}
  /\ idx = 0
  /\ exit_code = NoExit
  /\ traversed = FALSE
  /\ out0 = out
  /\ cleaned = NoOut
  /\ rerun = "first"
  /\ results = <<>>

\* the end of main: return code
Return(code) == pc' = "done" /\ exit_code' = code

\* parse_arguments: argparse exits with status 2 when --quality is outside
\* range(1, 101); --num-images is any int
ParseArguments ==
  /\ pc = "start"
  /\ \E a \in CommandLines :
       /\ args' = a
       /\ rerun' = IF args = NoArgs THEN "first" ELSE IF a = args THEN "same" ELSE "diff"
       /\ IF a.quality \in 1..100
          THEN pc' = "collect" /\ UNCHANGED exit_code
          ELSE Return(2)
  /\ UNCHANGED <<tree, env, out, rng, Locals, traversed, out0, cleaned, results>>

\* all_images = collect_image_paths(source_dir); ValueError ends the run
CollectImagePaths ==
  /\ pc = "collect"
  /\ LET r == collect_image_paths(tree)
     IN  /\ traversed' = r.walked
         /\ IF r.raised
            THEN Return(1) /\ UNCHANGED all_images
            ELSE pc' = "sample" /\ all_images' = r.value /\ UNCHANGED exit_code
  /\ UNCHANGED <<tree, env, out, rng, args, selected_images, num_processed, saved, idx,
                 out0, cleaned, rerun, results>>

\* selected_images = sample_images(all_images, args.num_images, args.seed)
SampleImages ==
  /\ pc = "sample"
  /\ LET r == sample_images(all_images, args.num_images, args.seed, rng)
     IN  /\ rng' = r.g
         /\ IF r.raised
            THEN Return(1) /\ UNCHANGED selected_images
            ELSE pc' = "mkdir" /\ selected_images' = r.value /\ UNCHANGED exit_code
  /\ UNCHANGED <<tree, env, out, args, all_images, num_processed, saved, idx,
                 traversed, out0, cleaned, rerun, results>>

\* process_images, creation of the output directory; on failure it returns 0
Mkdir ==
  /\ pc = "mkdir"
  /\ IF MkdirOk(out, env)
     THEN /\ out' = [out EXCEPT !.kind = "dir"]
          /\ pc' = "cleanup"
          /\ UNCHANGED num_processed
     ELSE /\ num_processed' = 0
          /\ pc' = "check"
          /\ UNCHANGED out
  /\ UNCHANGED <<tree, env, rng, args, all_images, selected_images, saved, idx,
                 exit_code, traversed, out0, cleaned, rerun, results>>

\* process_images, the loop over output_dir.glob("calib_*.jpg")
ClearExisting ==
  /\ pc = "cleanup"
  /\ out' = Cleanup(out, env)
  /\ cleaned' = out'
  /\ saved' = {}
  /\ idx' = 0
  /\ pc' = "loop"
  /\ UNCHANGED <<tree, env, rng, args, all_images, selected_images, num_processed,
                 exit_code, traversed, out0, rerun, results>>

\* process_images, one pass of the loop over enumerate(image_paths); idx counts
\* the passes begun. An exception of resize_if_needed is caught by no handler
\* of the loop: it leaves process_images, and main returns 1 from its
\* "except Exception"
ProcessItem ==
  /\ pc = "loop"
  /\ idx < Len(selected_images)
  /\ LET img_path == selected_images[idx + 1]
         output_path == OutputName(idx)
     IN  IF ~load_image(tree, img_path)
         THEN UNCHANGED <<out, saved, pc, exit_code>>
         ELSE LET img_resized ==
                    resize_if_needed(env, ImageSize(img_path), args.width, args.height)
              IN  IF img_resized.raised
                  THEN Return(1) /\ UNCHANGED <<out, saved>>
                  ELSE IF save_image(env, output_path)
                  THEN /\ out' = [out EXCEPT !.files =
                                    WithFile(@, output_path, Image(img_path, img_resized.size))]
                       /\ saved' = saved \cup {idx}
                       /\ UNCHANGED <<pc, exit_code>>
                  ELSE UNCHANGED <<out, saved, pc, exit_code>>
  /\ idx' = idx + 1
  /\ UNCHANGED <<tree, env, rng, args, all_images, selected_images, num_processed,
                 traversed, out0, cleaned, rerun, results>>

\* process_images, return successful
ProcessReturn ==
  /\ pc = "loop"
  /\ idx = Len(selected_images)
  /\ num_processed' = Cardinality(saved)
  /\ pc' = "check"
  /\ UNCHANGED <<tree, env, out, rng, args, all_images, selected_images, saved, idx,
                 exit_code, traversed, out0, cleaned, rerun, results>>

\* main: if num_processed == 0: return 1
CheckProcessed ==
  /\ pc = "check"
  /\ IF num_processed = 0 THEN Return(1) ELSE pc' = "list" /\ UNCHANGED exit_code
  /\ UNCHANGED <<tree, env, out, rng, args, Locals, traversed, out0, cleaned, rerun,
                 results>>

\* a main that ignores the result of generate_image_list
GenerateImageListUnchecked ==
  /\ pc = "list"
  /\ LET lines == ManifestLines(out)
     IN  IF lines # <<>> /\ env.list_ok
         THEN out' = [out EXCEPT !.files = WithFile(@, ListName, ListFile(lines))]
         ELSE UNCHANGED out
  /\ Return(0)
  /\ UNCHANGED <<tree, env, rng, args, Locals, traversed, out0, cleaned, rerun, results>>

\* generate_image_list and the return of main
GenerateImageList ==
  /\ pc = "list"
  /\ LET lines == ManifestLines(out)
     IN  IF lines = <<>>
         THEN Return(1) /\ UNCHANGED out
         ELSE IF env.list_ok
         THEN /\ out' = [out EXCEPT !.files = WithFile(@, ListName, ListFile(lines))]
              /\ Return(0)
         ELSE Return(1) /\ UNCHANGED out
  /\ UNCHANGED <<tree, env, rng, args, Locals, traversed, out0, cleaned, rerun, results>>

\* the program is started again on the same source tree and file system
Relaunch ==
  /\ pc = "done"
  /\ pc' = "start"
  /\ rng' \in FreshRng
  /\ all_images' = <<>>
  /\ selected_images' = <<>>
  /\ num_processed' = 0
  /\ saved' = {}
  /\ idx' = 0
  /\ exit_code' = NoExit
  /\ traversed' = FALSE
  /\ out0' = out
  /\ cleaned' = NoOut
  /\ UNCHANGED <<tree, env, out, args, rerun, results>>

Next ==
  \/ ParseArguments
  \/ CollectImagePaths
  \/ SampleImages
  \/ Mkdir
  \/ ClearExisting
  \/ ProcessItem
  \/ ProcessReturn
  \/ CheckProcessed
  \/ GenerateImageList
  \/ Relaunch

Spec == Init /\ [][Next]_vars

(***************************************************************************)
(* sample_images as a function: calls with the same arguments, the first   *)
(* from any state of the generator, the next from the state the previous   *)
(* call left.                                                              *)
(***************************************************************************)
\* the lists collect_image_paths can return: sorted, duplicate-free, not empty
\* a corpus of 22 files, a0.jpg .. a9.jpg, b0.jpg .. b9.jpg, c0.jpg, c1.jpg: one
\* more than the largest population random.sample copies into a pool
LargeCorpus ==
  SortedPaths({<<l, DigitChar[d + 1]>> \o DotJpg : l \in {"a", "b"}, d \in 0..9}
                \cup {<<"c", DigitChar[d + 1]>> \o DotJpg : d \in 0..1})

Corpora ==
  {SortedPaths(F) : F \in (SUBSET {SrcUniverse[i] : i \in 1..MaxCorpus}) \ {{}}}
    \cup {LargeCorpus}

SampleCounts == (-1)..(MaxCorpus + 1)

InitSample ==
  /\ tree = [kind |-> "missing", files |-> {}, bad |-> {}]
  /\ env = [locked |-> {}, unwritable |-> {}, list_ok |-> TRUE, mkdir_ok |-> TRUE,
            resize_ok |-> TRUE]
  /\ out = [kind |-> "absent", files |-> EmptyDir]
  /\ rng \in RngStates
  /\ args \in [num_images : SampleCounts, seed : Seeds, quality : {95},
               width : {DefaultWidth}, height : {DefaultHeight}]
  /\ pc = "sample"
  /\ all_images \in Corpora
  /\ selected_images = <<>>
  /\ num_processed = 0
  /\ saved = {}
  /\ idx = 0
  /\ exit_code = NoExit
  /\ traversed = TRUE
  /\ out0 = out
  /\ cleaned = NoOut
  /\ rerun = "first"
  /\ results = <<>>

SampleCall ==
  /\ Len(results) < MaxCalls
  /\ LET r == sample_images(all_images, args.num_images, args.seed, rng)
     IN  /\ rng' = r.g
         /\ selected_images' = r.value
         /\ results' = Append(results, [raised |-> r.raised, value |-> r.value])
  /\ UNCHANGED <<tree, env, out, args, pc, all_images, num_processed, saved, idx,
                 exit_code, traversed, out0, cleaned, rerun>>

NextSample == SampleCall

SpecSample == InitSample /\ [][NextSample]_vars

(***************************************************************************)
(* Properties of sample_images, checked under SpecSample.                  *)
(***************************************************************************)
NoRepeat(s) == \A i, j \in 1..Len(s) : i # j => s[i] # s[j]

\* a returned list that is a duplicate-free part of the corpus, of the size asked for
GoodSample(r) ==
  /\ ~r.raised
  /\ Range(r.value) \subseteq Range(all_images)
  /\ NoRepeat(r.value)
  /\ Len(r.value) = Min(args.num_images, Len(all_images))

\* C1 as stated: for every corpus, seed and requested count N, sample_images
\* returns a duplicate-free subset of the corpus with min(N, |Corpus|) elements.
C1_EveryCount == \A k \in DOMAIN results : GoodSample(results[k])

\* C1, amended: for every corpus, seed and requested count N >= 0, sample_images
\* returns a duplicate-free subset of the corpus with exactly min(N, |Corpus|)
\* elements; for N < 0 (and a non-empty corpus) it raises ValueError.
C1_SampleSize ==
  \A k \in DOMAIN results :
    IF args.num_images >= 0 THEN GoodSample(results[k]) ELSE results[k].raised

\* a call that drew at least two and fewer than all of the elements
C1_Witness ==
  /\ results # <<>>
  /\ args.num_images >= 2
  /\ args.num_images < Len(all_images)
  /\ Len(results[1].value) = args.num_images

\* C2: with the same corpus, seed and count, sample_images returns the same
\* list, element for element, on every call, whatever state the generator was
\* in before the call.
C2_Deterministic ==
  \A k \in DOMAIN results :
    /\ results[k] = results[1]
    /\ \A g \in RngStates :
         LET r == sample_images(all_images, args.num_images, args.seed, g)
         IN  results[k] = [raised |-> r.raised, value |-> r.value]

\* two calls that drew, the second one from a generator that was not fresh
C2_Witness ==
  /\ Len(results) >= 2
  /\ args.num_images >= 1
  /\ args.num_images < Len(all_images)
  /\ rng.pos > 0
  /\ results[2].value # <<>>

\* C3: if |Corpus| <= N, sample_images returns the corpus itself, same
\* elements in the same order, whatever the seed.
C3_UseAll ==
  \A k \in DOMAIN results :
    Len(all_images) <= args.num_images =>
      results[k] = [raised |-> FALSE, value |-> all_images]

\* a call with more images requested than the corpus of two or more holds
C3_Witness ==
  /\ results # <<>>
  /\ Len(all_images) >= 2
  /\ Len(all_images) < args.num_images
  /\ results[1].value = all_images

(***************************************************************************)
(* Properties of a run of main, checked under Spec.                        *)
(***************************************************************************)
Done == pc = "done"
\* argparse accepted the command line
Accepted == args.quality \in 1..100
\* the run got into the output directory: the cleanup loop has run
Cleaned == cleaned # NoOut

\* the lines of calibration_list.txt; no line when the file does not exist
Manifest(o) == IF ListName \in Names(o) THEN o.files[ListName].lines ELSE <<>>

\* the names the loop of this run wrote
WrittenNames == {OutputName(i) : i \in saved}

\* the indices of the sampled items that neither fail to decode nor fail to
\* be saved
Succeeded ==
  {i \in 0..(Len(selected_images) - 1) :
     load_image(tree, selected_images[i + 1]) /\ save_image(env, OutputName(i))}

\* the source path is missing, is no directory, or no file under it ends with
\* one of the extensions or with its upper-case spelling
SourceInvalid ==
  \/ tree.kind # "dir"
  \/ \A f \in tree.files : \A i \in 1..Len(Extensions) :
        ~EndsWith(f, Extensions[i]) /\ ~EndsWith(f, Upper(Extensions[i]))

\* C4: a count N <= 0 is rejected before any traversal: the run exits 1
\* without having enumerated the source tree and without having created,
\* cleaned or written anything in the output directory.
C4_RejectedBeforeTraversal ==
  (Done /\ Accepted /\ args.num_images <= 0) =>
    (exit_code = 1 /\ ~traversed /\ out = out0)

\* the pattern calib_NNNNNN.<ext>: six digits, then a dot and an extension
CanonicalPattern(name) ==
  /\ Len(name) > Len(CalibPrefix) + 7
  /\ StartsWith(name, CalibPrefix)
  /\ \A k \in (Len(CalibPrefix) + 1)..(Len(CalibPrefix) + 6) : name[k] \in Range(DigitChar)
  /\ name[Len(CalibPrefix) + 7] = "."

\* C5 as stated: the cleanup step deletes exactly the pre-existing files
\* named calib_NNNNNN.<ext> and leaves every other file untouched.
C5_CanonicalOnly ==
  Cleaned =>
    cleaned.files = Without(out0.files, {n \in Names(out0) : CanonicalPattern(n)})

\* C5, amended: the cleanup step, which runs before the first new file is
\* written, deletes exactly the pre-existing files that match the glob
\* calib_*.jpg and whose unlink succeeds (calib_notes.jpg is one of them);
\* every other file (calibration_list.txt, calib_000001.png, a file whose
\* unlink fails) is left untouched.
C5_CleanupFrame ==
  Cleaned =>
    /\ Names(cleaned) \subseteq Names(out0)
    /\ \A n \in Names(out0) :
         /\ n \in Names(cleaned) <=> ~(GlobCalib(n) /\ n \notin env.locked)
         /\ n \in Names(cleaned) => cleaned.files[n] = out0.files[n]

\* the cleanup has deleted calib_notes.jpg and a numbered file, and kept
\* calib_000001.png and the manifest
C5_Witness ==
  /\ pc = "loop"
  /\ idx = 0
  /\ {NotesJpg, OutputName(1), StalePng, ListName} \subseteq Names(out0)
  /\ Names(cleaned) = {StalePng, ListName}

\* C6: after any run that got as far as the output directory, exit status 1
\* included, calibration_list.txt has one line per calib_* file present, each
\* line the absolute path of one such file.
C6_ManifestMatchesDirectory ==
  (Done /\ Cleaned) =>
    /\ Len(Manifest(out)) = Cardinality(CalibFiles(out))
    /\ Range(Manifest(out)) = {OutDirAbs \o n : n \in CalibFiles(out)}

\* a finished run that got through the cleanup step with no stale file left
C7_Run == Done /\ Cleaned /\ CalibFiles(cleaned) = {}

\* the image process_images writes for a source path: of the target size
Normalized(src) == Image(src, <<args.width, args.height>>)

\* C7, for the runs whose calibration_list.txt can be written: when items
\* fail to decode or to be saved, process_images still processes every
\* remaining item; with no stale file surviving the cleanup the calib files
\* are exactly calib_<i> for the indices i of the items that did not fail,
\* and the run exits 0 as long as one item succeeded.
C7_ProcessesEveryItem ==
  (C7_Run /\ env.list_ok) =>
    /\ idx = Len(selected_images)
    /\ saved = Succeeded
    /\ num_processed = Cardinality(Succeeded)
    /\ CalibFiles(out) = {OutputName(i) : i \in Succeeded}
    /\ \A i \in Succeeded : out.files[OutputName(i)] = Normalized(selected_images[i + 1])
    /\ Succeeded # {} => exit_code = 0

\* generate_image_list was called, which main does when process_images has
\* returned a count above 0, and it wrote calibration_list.txt
ManifestGenerated == num_processed > 0 /\ env.list_ok

\* C8: main returns 0 exactly when at least one image was written and the
\* manifest was generated; it returns 1 on a validation error, on zero
\* processed images and on a failed write of the manifest.
C8_ExitCode ==
  Done =>
    /\ exit_code = 0 <=> (Cleaned /\ saved # {} /\ ManifestGenerated)
    /\ exit_code = 0 => Manifest(out) = ManifestLines(out)
    /\ Accepted =>
         /\ exit_code \in {0, 1}
         /\ SourceInvalid => exit_code = 1
         /\ num_processed = 0 => exit_code = 1
         /\ (saved # {} /\ ~env.list_ok) => exit_code = 1

\* a run that wrote an image and failed to write the manifest
C8_Witness ==
  /\ Done
  /\ saved # {}
  /\ ~env.list_ok
  /\ exit_code = 1

\* what C9 says of two runs with the same parameters
C9_SameTwice == (Done /\ rerun = "same") => out = out0

\* C9 as stated: ... and a run after a run with other parameters ends with
\* only the files of the new run.
C9_OnlyNewFiles ==
  /\ C9_SameTwice
  /\ (Done /\ rerun = "diff") => CalibFiles(out) \subseteq WrittenNames

\* C9, amended: two runs in succession with the same parameters on an
\* unchanged source tree and file system leave the output directory in the
\* same final state; a run with other parameters than the run before it
\* that gets as far as the cleanup step ends with only the calib_*.jpg files
\* it wrote and those earlier ones whose removal failed (a run that ends
\* before the cleanup step leaves the earlier files in place).
C9_Idempotent ==
  /\ C9_SameTwice
  /\ (Done /\ rerun = "diff") =>
       IF Cleaned
       THEN \A n \in CalibFiles(out) :
              n \in WrittenNames \/ (n \in CalibFiles(out0) /\ n \in env.locked)
       ELSE out = out0

\* the second of two equal runs, which deleted and rewrote the files
C9_Witness ==
  /\ Done
  /\ rerun = "same"
  /\ exit_code = 0
  /\ Cardinality(saved) >= 2
  /\ CalibFiles(out0) # {}
  /\ CalibFiles(cleaned) = {}

\* C10: when the source directory is missing, is no directory or holds no
\* matching file, the run ends with status 1 and the output directory is as
\* it was: not created, nothing deleted, no image and no manifest written.
C10_NoPartialWork ==
  SourceInvalid =>
    /\ out = out0
    /\ ~Cleaned
    /\ (Done /\ Accepted) => exit_code = 1

\* a failed run beside an output directory that holds earlier files
C10_Witness ==
  /\ Done
  /\ exit_code = 1
  /\ tree.kind = "dir"
  /\ SourceInvalid
  /\ traversed
  /\ CalibFiles(out) # {}
  /\ ListName \in Names(out)

(***************************************************************************)
(* collect_image_paths as a function, on trees whose files spell their     *)
(* extension in lower, upper and mixed case, at the top and in a           *)
(* subdirectory. The file system is case-sensitive, and Path.rglob matches *)
(* a pattern case-sensitively on it.                                       *)
(***************************************************************************)
CollectUniverse ==
  << <<"a", ".", "j", "p", "g">>,
     <<"a", "/", "b", ".", "j", "p", "g">>,
     <<"c", ".", "J", "P", "G">>,
     <<"b", ".", "J", "p", "g">>,
     <<"n", ".", "t", "x", "t">>,
     <<"d", ".", "p", "n", "g">>,
     <<"d", "/", "c", ".", "P", "N", "G">>,
     <<"e", ".", "j", "p", "e", "g">> >>

CollectTrees ==
  {[kind |-> "dir", files |-> F, bad |-> {}] :
     F \in SUBSET {CollectUniverse[i] : i \in 1..MaxTreeFiles}}

InitCollect ==
  /\ tree \in CollectTrees
  /\ env = [locked |-> {}, unwritable |-> {}, list_ok |-> TRUE, mkdir_ok |-> TRUE,
            resize_ok |-> TRUE]
  /\ out = [kind |-> "absent", files |-> EmptyDir]
  /\ rng \in FreshRng
  /\ args \in [num_images : {300}, seed : Seeds, quality : {95},
               width : {DefaultWidth}, height : {DefaultHeight}]
  /\ pc = "collect"
  /\ all_images = <<>>
  /\ selected_images = <<>>
  /\ num_processed = 0
  /\ saved = {}
  /\ idx = 0
  /\ exit_code = NoExit
  /\ traversed = FALSE
  /\ out0 = out
  /\ cleaned = NoOut
  /\ rerun = "first"
  /\ results = <<>>

NextCollect == CollectImagePaths

SpecCollect == InitCollect /\ [][NextCollect]_vars

\* str.lower() on the characters of the modelled names
LowerChar(c) ==
  CASE c = "J" -> "j" [] c = "P" -> "p" [] c = "G" -> "g"
    [] c = "E" -> "e" [] c = "N" -> "n" [] OTHER -> c

Lower(s) == [i \in 1..Len(s) |-> LowerChar(s[i])]

\* the files whose extension is one of the configured ones, whatever its case
CaseInsensitiveMatches(t) ==
  {f \in t.files : \E i \in 1..Len(Extensions) : EndsWith(Lower(f), Extensions[i])}

\* C11: for every tree and every spelling of the extensions, the corpus that
\* collect_image_paths returns holds exactly the files, at any depth, whose
\* extension is a configured one when compared case-insensitively, each once,
\* sorted by path (and the call raises only when there is no such file).
C11_CaseInsensitive ==
  pc # "collect" =>
    IF CaseInsensitiveMatches(tree) = {}
    THEN pc = "done" /\ exit_code = 1
    ELSE /\ pc = "sample"
         /\ Range(all_images) = CaseInsensitiveMatches(tree)
         /\ Len(all_images) = Cardinality(CaseInsensitiveMatches(tree))
         /\ \A i, j \in 1..Len(all_images) :
              i < j => PathLess(all_images[i], all_images[j])

(***************************************************************************)
(* The ordinals of the output files, checked under Spec.                   *)
(***************************************************************************)
\* the files of the output directory that the loop of this run created or
\* changed
WrittenByLoop ==
  {n \in Names(out) \ {ListName} :
     n \notin Names(cleaned) \/ out.files[n] # cleaned.files[n]}

\* C12: sample_images returns its result in the path order of the corpus, not
\* in draw order, and process_images writes the image of the i-th element of
\* that sequence, and of no other element, to calib_<i, 6 digits>.jpg.
C12_OrdinalBySortedIndex ==
  /\ Range(selected_images) \subseteq Range(all_images)
  /\ \A i, j \in 1..Len(selected_images) :
       i < j => PathLess(selected_images[i], selected_images[j])
  /\ Cleaned =>
       /\ \A i \in saved :
            /\ i < Len(selected_images)
            /\ OutputName(i) \in Names(out)
            /\ out.files[OutputName(i)] = Normalized(selected_images[i + 1])
       /\ \A n \in WrittenByLoop :
            \E i \in saved : n = OutputName(i) /\ Len(Format06d(i)) = 6

\* a finished run that drew two of three images in another order than the
\* path order, and wrote both
C12_Witness ==
  /\ Done
  /\ exit_code = 0
  /\ Len(all_images) = 3
  /\ Len(selected_images) = 2
  /\ saved = {0, 1}
  /\ random_sample(all_images, 2, random_seed(args.seed)).value # selected_images
  /\ out.files[OutputName(1)] = Normalized(selected_images[2])

(***************************************************************************)
(* generate_image_list as a function, on output directories that hold the  *)
(* files calib_<i>.jpg of a set of ordinals i, small ones and ones around   *)
(* the powers of ten where the number of digits changes.                   *)
(***************************************************************************)
OrdinalSamples ==
  {0, 1, 9, 10, 99, 100000}
    \cup {10 ^ k - 1 : k \in 6..MaxDigits} \cup {10 ^ k : k \in 6..MaxDigits}

InitManifest ==
  /\ tree = [kind |-> "dir", files |-> {NotesTxt}, bad |-> {}]
  /\ env = [locked |-> {}, unwritable |-> {}, list_ok |-> TRUE, mkdir_ok |-> TRUE,
            resize_ok |-> TRUE]
  /\ saved \in (SUBSET OrdinalSamples) \ {{}}
  /\ out = [kind |-> "dir", files |-> [n \in {OutputName(i) : i \in saved} |-> Foreign]]
  /\ rng \in FreshRng
  /\ args = [num_images |-> 300, seed |-> 42, quality |-> 95,
             width |-> DefaultWidth, height |-> DefaultHeight]
  /\ pc = "list"
  /\ all_images = <<>>
  /\ selected_images = <<>>
  /\ num_processed = Cardinality(saved)
  /\ idx = 0
  /\ exit_code = NoExit
  /\ traversed = TRUE
  /\ out0 = out
  /\ cleaned = out
  /\ rerun = "first"
  /\ results = <<>>

NextManifest == GenerateImageList

SpecManifest == InitManifest /\ [][NextManifest]_vars

\* the elements of a set of numbers in ascending order
RECURSIVE NumericOrder(_)
NumericOrder(S) ==
  IF S = {} THEN <<>>
  ELSE LET m == CHOOSE x \in S : \A y \in S : x <= y
       IN  <<m>> \o NumericOrder(S \ {m})

\* the manifest lists the files of the ordinals in saved in ascending ordinal order
InOrdinalOrder ==
  /\ Len(Manifest(out)) = Cardinality(saved)
  /\ \A k \in 1..Len(Manifest(out)) :
       Manifest(out)[k] = OutDirAbs \o OutputName(NumericOrder(saved)[k])

\* C13 as stated: the manifest lists the calib files in ascending ordinal
\* order for every set of ordinals, those above 999999 included.
C13_AnyOrdinal == (Done /\ exit_code = 0) => InOrdinalOrder

\* C13, amended: the manifest lists the calib files in ascending ordinal
\* order (sorting by file name equals sorting by ordinal) for every set of
\* ordinals below 1000000, that is for a SampleSet of at most 1000000 items;
\* from ordinal 1000000 on the name has seven digits or more and sorts before
\* the six-digit names that start with a larger digit.
C13_OrdinalOrderBelowMillion ==
  (Done /\ exit_code = 0 /\ \A i \in saved : i < 1000000) => InOrdinalOrder

\* a manifest of ordinals with one, two and six significant digits
C13_Witness ==
  /\ Done
  /\ exit_code = 0
  /\ {9, 10, 100000, 999999} \subseteq saved
  /\ \A i \in saved : i < 1000000
  /\ Len(Manifest(out)) >= 4
  /\ Manifest(out)[Len(Manifest(out))] = OutDirAbs \o OutputName(999999)

====
